---- MODULE Spec2Model ----
(***************************************************************************)
(* A model of uscensus/core.py: the Census API client (key validation,     *)
(* edition resolution, variable-definition cache, query construction,      *)
(* request, column coercion).                                              *)
(*                                                                         *)
(* Text is modelled as sequences of one-character strings.  Python values  *)
(* are tagged records: [t |-> "int", i |-> n], [t |-> "str", s |-> chars], *)
(* [t |-> "list", l |-> <<values>>], [t |-> "float", f |-> n],             *)
(* [t |-> "none"].                                                         *)
(***************************************************************************)
EXTENDS Integers, Sequences, FiniteSets, TLC

VARIABLES catalog, files, client, net, last

vars == <<catalog, files, client, net, last>>

---------------------------------------------------------------------------
(* Bounds of the model *)

\* requests counted per cache file before the model stops issuing calls
MaxRequests == 2

\* how many characters beyond API_KEY_LENGTH the longest key tried has
MaxExtraKey == 2

---------------------------------------------------------------------------
(* Program constants *)

API_KEY_LENGTH == 40

DEFAULT_API_URL == <<"h","t","t","p",":","/","/","a","p","i",".","c","e","n","s","u","s",".","g","o","v","/","d","a","t","a","/">>

---------------------------------------------------------------------------
(* Python values and text *)

PyInt(n) == [t |-> "int", i |-> n]
PyStr(s) == [t |-> "str", s |-> s]
PyList(l) == [t |-> "list", l |-> l]
PyFloat(n) == [t |-> "float", f |-> n]
PyNone == [t |-> "none"]

Raise(exc) == [tag |-> "raise", exc |-> exc]

DigitChars == <<"0","1","2","3","4","5","6","7","8","9">>
LowerChars == <<"a","b","c","d","e","f","g","h","i","j","k","l","m","n","o","p","q","r","s","t","u","v","w","x","y","z">>
UpperChars == <<"A","B","C","D","E","F","G","H","I","J","K","L","M","N","O","P","Q","R","S","T","U","V","W","X","Y","Z">>

RECURSIVE NatStr(_)
NatStr(n) == IF n < 10 THEN <<DigitChars[n + 1]>>
             ELSE NatStr(n \div 10) \o <<DigitChars[(n % 10) + 1]>>

\* str(i) of an int or a str element
Str(v) == IF v.t = "int"
          THEN (IF v.i < 0 THEN <<"-">> \o NatStr(-v.i) ELSE NatStr(v.i))
          ELSE v.s

IsDigit(c) == \E k \in 1..10 : DigitChars[k] = c
DigitVal(c) == (CHOOSE k \in 1..10 : DigitChars[k] = c) - 1

RECURSIVE ParseNat(_)
ParseNat(s) == IF Len(s) = 1 THEN DigitVal(s[1])
               ELSE 10 * ParseNat(SubSeq(s, 1, Len(s) - 1)) + DigitVal(s[Len(s)])

IsNatText(s) == Len(s) > 0 /\ \A k \in 1..Len(s) : IsDigit(s[k])

\* str.upper()
UpperChar(c) == IF \E k \in 1..26 : LowerChars[k] = c
                THEN UpperChars[CHOOSE k \in 1..26 : LowerChars[k] = c]
                ELSE c
Upper(s) == [k \in 1..Len(s) |-> UpperChar(s[k])]

\* curses.ascii.isxdigit
HexDigits == {DigitChars[k] : k \in 1..10}
             \cup {LowerChars[k] : k \in 1..6} \cup {UpperChars[k] : k \in 1..6}
isxdigit(c) == c \in HexDigits

RECURSIVE Join(_, _)
Join(sep, parts) == IF Len(parts) = 0 THEN <<>>
                    ELSE IF Len(parts) = 1 THEN parts[1]
                    ELSE parts[1] \o sep \o Join(sep, Tail(parts))

RECURSIVE Concat(_)
Concat(parts) == IF Len(parts) = 0 THEN <<>> ELSE parts[1] \o Concat(Tail(parts))

---------------------------------------------------------------------------
(* Predicate encoder *)

\* without the str case a str is a Sequence of its characters
_make_list_str_as_sequence(x) ==
    IF x.t = "int" THEN [tag |-> "ok", l |-> <<x>>]
    ELSE IF x.t = "str" THEN [tag |-> "ok", l |-> [k \in 1..Len(x.s) |-> PyStr(<<x.s[k]>>)]]
    ELSE IF x.t = "list" THEN [tag |-> "ok", l |-> x.l]
    ELSE Raise("ValueError")

\* what _make_list returns, or the exception it raises
_make_list(x) ==
    IF x.t = "int" THEN [tag |-> "ok", l |-> <<x>>]
    ELSE IF x.t = "str" THEN [tag |-> "ok", l |-> <<x>>]
    ELSE IF x.t = "list" THEN [tag |-> "ok", l |-> x.l]
    ELSE Raise("ValueError")

\* the values comma-joined under one key, as the geography predicates are
query_predicate_string_joined(name, arg) ==
    LET a == _make_list(arg) IN
    IF a.tag = "raise" THEN a
    ELSE IF Len(a.l) > 0
         THEN [tag |-> "ok",
               s |-> <<"&">> \o name \o <<"=">> \o
                     Join(<<",">>, [k \in 1..Len(a.l) |-> Str(a.l[k])])]
         ELSE [tag |-> "ok", s |-> <<>>]

query_predicate_string(name, arg) ==
    LET a == _make_list(arg) IN
    IF a.tag = "raise" THEN a
    ELSE IF Len(a.l) > 0
         THEN [tag |-> "ok",
               s |-> <<"&">> \o name \o <<"=">> \o
                     Join(<<"&">> \o name \o <<"=">>, [k \in 1..Len(a.l) |-> Str(a.l[k])])]
         ELSE [tag |-> "ok", s |-> <<>>]

geo_predicate_string(name, arg) ==
    LET a == _make_list(arg) IN
    IF a.tag = "raise" THEN a
    ELSE [tag |-> "ok",
          s |-> name \o <<":">> \o Join(<<",">>, [k \in 1..Len(a.l) |-> Str(a.l[k])])]

T_state == <<"s","t","a","t","e">>
T_county == <<"c","o","u","n","t","y">>
T_for == <<"&","f","o","r","=">>
T_in == <<"&","i","n","=">>

\* no check that some geography is given
_geography_query_lenient(state, county) ==
    LET c == _make_list(county)
        s == _make_list(state)
    IN  IF c.tag = "raise" THEN c
        ELSE IF s.tag = "raise" THEN s
        ELSE IF Len(c.l) = 0
             THEN [tag |-> "ok",
                   s |-> IF Len(s.l) = 0 THEN <<>>
                         ELSE T_for \o geo_predicate_string(T_state, PyList(s.l)).s]
             ELSE [tag |-> "ok",
                   s |-> T_for \o geo_predicate_string(T_county, PyList(c.l)).s
                         \o (IF Len(s.l) > 0
                             THEN T_in \o geo_predicate_string(T_state, PyList(s.l)).s
                             ELSE <<>>)]

_geography_query(state, county) ==
    LET c == _make_list(county)
        s == _make_list(state)
    IN  IF c.tag = "raise" THEN c
        ELSE IF s.tag = "raise" THEN s
        ELSE IF Len(c.l) = 0
             THEN IF Len(s.l) = 0
                  THEN Raise("ValueError")
                  ELSE [tag |-> "ok",
                        s |-> T_for \o geo_predicate_string(T_state, PyList(s.l)).s]
             ELSE IF Len(s.l) > 0
                  THEN [tag |-> "ok",
                        s |-> T_for \o geo_predicate_string(T_county, PyList(c.l)).s
                              \o T_in \o geo_predicate_string(T_state, PyList(s.l)).s]
                  ELSE [tag |-> "ok",
                        s |-> T_for \o geo_predicate_string(T_county, PyList(c.l)).s]

---------------------------------------------------------------------------
(* Documents served for a dataset's variable definitions, as JSON text.    *)
(* A text is [kind |-> "json", top |-> <top-level key>, members |-> the    *)
(* members of the object under that key, in textual order] or              *)
(* [kind |-> "html"] (a body that is not JSON).                            *)

Dtype(d) == [t |-> "dtype", d |-> d]
NaN == [t |-> "nan"]
Missing == [t |-> "missing"]

N_EMP == <<"E","M","P">>
N_NAME == <<"N","A","M","E">>
N_GEO == <<"G","E","O">>
N_for == <<"f","o","r">>
N_Tot == <<"T","o","t">>
N_bogus == <<"b","o","g","u","s">>
N_required == <<"r","e","q","u","i","r","e","d">>

Member(name, ptype, req) == [k |-> name, predicateType |-> ptype, required |-> req]

BodyA == [kind |-> "json", top |-> "variables", members |->
          << Member(N_EMP, Dtype("int"), Missing),
             Member(N_NAME, Dtype("string"), Missing),
             Member(N_GEO, Missing, Missing),
             Member(N_for, Dtype("fips-for"), Missing),
             Member(T_county, Dtype("string"), Missing),
             Member(N_Tot, Dtype("float"), Missing) >>]

\* EMP appears twice; a variable is itself named "required"
BodyB == [kind |-> "json", top |-> "variables", members |->
          << Member(N_EMP, Dtype("string"), Missing),
             Member(N_required, Dtype("int"), Missing),
             Member(N_EMP, Dtype("float"), PyStr(<<"t","r","u","e">>)) >>]

BodyError == [kind |-> "json", top |-> "error", members |-> <<>>]
BodyHtml == [kind |-> "html"]

\* what requests.get can produce for a variable-definition link
NoResponse == [net |-> "unused"]
ConnectionFailed == [net |-> "down"]
Served(status, text) == [net |-> "up", status |-> status, text |-> text]

VariableResponses == { ConnectionFailed, Served(200, BodyA), Served(200, BodyB),
                       Served(404, BodyError), Served(503, BodyHtml) }

\* json.loads: a dict keeps the position of a key's first occurrence and the
\* value of its last
RECURSIVE DictOf(_)
DictOf(members) ==
    IF Len(members) = 0 THEN <<>>
    ELSE LET init == DictOf(SubSeq(members, 1, Len(members) - 1))
             m == members[Len(members)]
         IN  IF \E k \in 1..Len(init) : init[k].k = m.k
             THEN [k \in 1..Len(init) |-> IF init[k].k = m.k THEN m ELSE init[k]]
             ELSE Append(init, m)

Loads(text) == IF text.kind = "json"
               THEN [tag |-> "ok", raw |-> [top |-> text.top, dict |-> DictOf(text.members)]]
               ELSE Raise("JSONDecodeError")

\* json.dumps of a loaded document
Dumps(raw) == [kind |-> "json", top |-> raw.top, members |-> raw.dict]

\* pd.DataFrame(raw["variables"]) followed by the "required" fill: one column per
\* variable, one row per attribute some variable carries
DataFrame(dict) ==
    LET rows == {r \in {"predicateType", "required"} :
                    \E k \in 1..Len(dict) :
                        IF r = "required" THEN dict[k].required # Missing
                        ELSE dict[k].predicateType # Missing}
        cell(x) == IF x = Missing THEN NaN ELSE x
    IN  [rows |-> rows,
         cols |-> [k \in 1..Len(dict) |->
                      [name |-> dict[k].k,
                       predicateType |-> cell(dict[k].predicateType),
                       required |-> cell(dict[k].required)]]]

Columns(df) == {df.cols[k].name : k \in 1..Len(df.cols)}

FillRequired(df) ==
    IF N_required \in Columns(df)
    THEN IF "required" \in df.rows
         THEN [tag |-> "ok",
               df |-> [df EXCEPT !.cols =
                          [k \in 1..Len(df.cols) |->
                              IF df.cols[k].required = NaN
                              THEN [df.cols[k] EXCEPT !.required =
                                        PyStr(<<"F","a","l","s","e">>)]
                              ELSE df.cols[k]]]]
         ELSE Raise("KeyError")
    ELSE [tag |-> "ok", df |-> df]

TableOf(raw) == IF raw.top = "variables" THEN FillRequired(DataFrame(raw.dict))
                ELSE Raise("KeyError")

\* str.replace("/", "_")
ReplaceSlash(s) == [k \in 1..Len(s) |-> IF s[k] = "/" THEN "_" ELSE s[k]]

_variables_file_name(dataset) == ReplaceSlash(dataset) \o <<".","j","s","o","n">>

\* the fetched document returned but never written to the cache file
_get_variables_file_unsaved(dataset, fs, resp) ==
    LET fn == _variables_file_name(dataset) IN
    IF fn \in DOMAIN fs
    THEN LET raw == Loads(fs[fn]).raw IN
         [result |-> TableOf(raw), fs |-> fs, nreq |-> 0, nwrite |-> 0]
    ELSE IF resp = ConnectionFailed
         THEN [result |-> Raise("ConnectionError"), fs |-> fs, nreq |-> 1, nwrite |-> 0]
         ELSE LET parsed == Loads(resp.text) IN
              IF parsed.tag = "raise"
              THEN [result |-> parsed, fs |-> fs, nreq |-> 1, nwrite |-> 0]
              ELSE [result |-> TableOf(parsed.raw), fs |-> fs, nreq |-> 1, nwrite |-> 0]

\* _get_variables_file on data directory fs, with resp what the network would
\* answer: the result, the data directory afterwards, the requests issued
_get_variables_file(dataset, fs, resp) ==
    LET fn == _variables_file_name(dataset) IN
    IF fn \in DOMAIN fs
    THEN LET raw == Loads(fs[fn]).raw IN
         [result |-> TableOf(raw), fs |-> fs, nreq |-> 0, nwrite |-> 0]
    ELSE IF resp = ConnectionFailed
         THEN [result |-> Raise("ConnectionError"), fs |-> fs, nreq |-> 1, nwrite |-> 0]
         ELSE LET parsed == Loads(resp.text) IN
              IF parsed.tag = "raise"
              THEN [result |-> parsed, fs |-> fs, nreq |-> 1, nwrite |-> 0]
              ELSE [result |-> TableOf(parsed.raw),
                    fs |-> (fn :> Dumps(parsed.raw)) @@ fs,
                    nreq |-> 1, nwrite |-> 1]

---------------------------------------------------------------------------
(* API keys and CensusData.__init__ *)

HexCycle == <<"0","9","a","F">>
KeyBody(n) == [k \in 1..n |-> HexCycle[((k - 1) % 4) + 1]]
OtherKey == [k \in 1..API_KEY_LENGTH |-> "b"]
WithChar(s, p, c) == [s EXCEPT ![p] = c]

KeyLengths == {API_KEY_LENGTH - 1} \cup (API_KEY_LENGTH .. (API_KEY_LENGTH + MaxExtraKey))

\* keys of each length, all hexadecimal or with one "g" at the first, the
\* 40th or the last position
KeyTexts == {KeyBody(n) : n \in KeyLengths}
            \cup UNION {{WithChar(KeyBody(n), p, "g") :
                             p \in {1, API_KEY_LENGTH, n} \cap (1..n)} : n \in KeyLengths}

\* (key argument, USCENSUS_API_KEY in the environment, content of the key file)
KeySources ==
    {<<PyStr(k), PyNone, PyNone>> : k \in KeyTexts}
    \cup { <<PyStr(OtherKey), PyStr(KeyBody(API_KEY_LENGTH)), PyNone>>,
           <<PyNone, PyStr(OtherKey), PyStr(KeyBody(API_KEY_LENGTH))>>,
           <<PyNone, PyNone, PyStr(OtherKey \o <<"\n">>)>>,
           <<PyNone, PyNone, PyNone>> }

\* no check of the characters
CensusData_init_unchecked(url, key, envKey, fileKey) ==
    LET k0 == IF key # PyNone THEN key
              ELSE IF envKey # PyNone THEN envKey
              ELSE fileKey
    IN  IF k0 = PyNone
        THEN [tag |-> "raise", exc |-> "EnvironmentError", warned |-> FALSE]
        ELSE LET long == Len(k0.s) > API_KEY_LENGTH
                 k1 == IF long THEN SubSeq(k0.s, 1, API_KEY_LENGTH) ELSE k0.s
             IN  IF Len(k0.s) < API_KEY_LENGTH
                 THEN [tag |-> "raise", exc |-> "ValueError", warned |-> FALSE]
                 ELSE [tag |-> "ok", key |-> k1, url |-> url, warned |-> long]

\* the warning given, the key stored whole
CensusData_init_untruncated(url, key, envKey, fileKey) ==
    LET k0 == IF key # PyNone THEN key
              ELSE IF envKey # PyNone THEN envKey
              ELSE fileKey
    IN  IF k0 = PyNone
        THEN [tag |-> "raise", exc |-> "EnvironmentError", warned |-> FALSE]
        ELSE LET long == Len(k0.s) > API_KEY_LENGTH
                 k1 == SubSeq(k0.s, 1, API_KEY_LENGTH)
             IN  IF Len(k0.s) < API_KEY_LENGTH
                 THEN [tag |-> "raise", exc |-> "ValueError", warned |-> FALSE]
                 ELSE IF ~ \A p \in 1..Len(k1) : isxdigit(k1[p])
                      THEN [tag |-> "raise", exc |-> "ValueError", warned |-> long]
                      ELSE [tag |-> "ok", key |-> k0.s, url |-> url, warned |-> long]

\* CensusData.__init__: the key and url stored, or the exception raised
CensusData_init(url, key, envKey, fileKey) ==
    LET k0 == IF key # PyNone THEN key
              ELSE IF envKey # PyNone THEN envKey
              ELSE fileKey
    IN  IF k0 = PyNone
        THEN [tag |-> "raise", exc |-> "EnvironmentError", warned |-> FALSE]
        ELSE LET long == Len(k0.s) > API_KEY_LENGTH
                 k1 == IF long THEN SubSeq(k0.s, 1, API_KEY_LENGTH) ELSE k0.s
             IN  IF Len(k0.s) < API_KEY_LENGTH
                 THEN [tag |-> "raise", exc |-> "ValueError", warned |-> FALSE]
                 ELSE IF ~ \A p \in 1..Len(k1) : isxdigit(k1[p])
                      THEN [tag |-> "raise", exc |-> "ValueError", warned |-> long]
                      ELSE [tag |-> "ok", key |-> k1, url |-> url, warned |-> long]

---------------------------------------------------------------------------
(* The dataset catalog (_DATA) and CountyBusinessPatterns.__init__ *)

Temporal(a, b) == NatStr(a) \o <<"/">> \o NatStr(b)
Entry(path, temporal, link) ==
    [c_dataset |-> path, temporal |-> temporal, c_variablesLink |-> link]

S_cbp == <<"c","b","p">>
S_acs == <<"a","c","s">>
S_acs5 == <<"a","c","s","5">>
Link(n) == <<"v","a","r","s">> \o NatStr(n)

\* the "dataset" arrays data.json may hold
RawCatalogs ==
    { << Entry(<<S_acs, S_acs5>>, Temporal(2007, 2007), Link(1)),
         Entry(<<S_cbp>>, Temporal(2010, 2010), Link(2)),
         Entry(<<S_cbp>>, Temporal(2009, 2011), Link(3)),
         Entry(<<S_cbp>>, Temporal(2012, 2013), Link(4)),
         Entry(<<S_acs, S_cbp>>, Temporal(2014, 2014), Link(5)) >>,
      << Entry(<<S_cbp>>, Temporal(2012, 2012), Link(6)),
         Entry(<<S_cbp>>, Temporal(2012, 2012), Link(7)) >>,
      << Entry(<<S_acs, S_acs5>>, Temporal(2010, 2010), Link(8)) >> }

Years == {2007, 2009, 2010, 2012, 2014}

\* _load_metadata: the c_dataset path joined with "/"
_load_metadata(raw) ==
    [k \in 1..Len(raw) |-> [raw[k] EXCEPT !.c_dataset = Join(<<"/">>, raw[k].c_dataset)]]

RECURSIVE SplitFirst(_)
SplitFirst(s) == IF Len(s) = 0 \/ s[1] = "/" THEN <<>>
                 ELSE <<s[1]>> \o SplitFirst(Tail(s))

SetMin(S) == CHOOSE x \in S : \A y \in S : x <= y
SetMax(S) == CHOOSE x \in S : \A y \in S : x >= y

cbp_meta(data, year) ==
    SelectSeq(data, LAMBDA e : /\ e.c_dataset = S_cbp
                               /\ e.temporal = NatStr(year) \o <<"/">> \o NatStr(year))

\* the years of every catalog entry, whatever its dataset
cbp_years_of_all(data) == {ParseNat(SplitFirst(data[k].temporal)) : k \in 1..Len(data)}

\* the years named by the "Invalid year" message
cbp_years(data) ==
    LET family == SelectSeq(data, LAMBDA e : e.c_dataset = S_cbp)
    IN  {ParseNat(SplitFirst(family[k].temporal)) : k \in 1..Len(family)}

YearRangeError(data, year) ==
    LET years == cbp_years(data) IN
    [tag |-> "raise", exc |-> "ValueError",
     msg |-> [text |-> "Invalid year. Must be in range", year |-> year,
              min_year |-> IF years = {} THEN NaN ELSE PyInt(SetMin(years)),
              max_year |-> IF years = {} THEN NaN ELSE PyInt(SetMax(years))]]

NoClient == [t |-> "none"]

\* CountyBusinessPatterns.__init__: the outcome, the object built, the data
\* directory afterwards and what the call did on the way
CountyBusinessPatterns_init(data, fs, year, url, key, envKey, fileKey, resp) ==
    LET base == CensusData_init(url, key, envKey, fileKey)
        dataset == NatStr(year) \o <<"/">> \o S_cbp
        meta == cbp_meta(data, year)
        quiet == [fs |-> fs, nreq |-> 0, nwrite |-> 0, fetched |-> FALSE,
                  warned |-> base.warned, obj |-> NoClient]
    IN  IF base.tag = "raise"
        THEN [result |-> [tag |-> "raise", exc |-> base.exc]] @@ quiet
        ELSE IF Len(meta) = 0
        THEN [result |-> YearRangeError(data, year)] @@ quiet
        ELSE LET got == _get_variables_file(dataset, fs, resp) IN
             [result |-> IF got.result.tag = "raise" THEN got.result ELSE [tag |-> "ok"],
              fs |-> got.fs, nreq |-> got.nreq, nwrite |-> got.nwrite, fetched |-> TRUE,
              warned |-> base.warned,
              obj |-> IF got.result.tag = "raise" THEN NoClient
                      ELSE [t |-> "client", key |-> base.key, url |-> base.url,
                            year |-> year, dataset |-> dataset, meta |-> meta,
                            vars_df |-> got.result.df]]

---------------------------------------------------------------------------
(* validate_vars and get *)

IsIn(name, df) == \E k \in 1..Len(df.cols) : df.cols[k].name = name

\* the names compared as given
RECURSIVE validate_vars_case_sensitive(_, _)
validate_vars_case_sensitive(df, names) ==
    IF Len(names) = 0 THEN [tag |-> "ok"]
    ELSE LET var == names[1] IN
         IF var.t # "str" THEN [tag |-> "raise", exc |-> "AttributeError", var |-> var]
         ELSE IF ~ IsIn(var.s, df)
              THEN [tag |-> "raise", exc |-> "ValueError", var |-> var]
              ELSE validate_vars_case_sensitive(df, Tail(names))

\* validate_vars: the first name (in iteration order) that is rejected decides
RECURSIVE validate_vars(_, _)
validate_vars(df, names) ==
    IF Len(names) = 0 THEN [tag |-> "ok"]
    ELSE LET var == names[1] IN
         IF var.t # "str" THEN [tag |-> "raise", exc |-> "AttributeError", var |-> var]
         ELSE IF ~ IsIn(Upper(var.s), df)
              THEN [tag |-> "raise", exc |-> "ValueError", var |-> var]
              ELSE validate_vars(df, Tail(names))

\* kwargs is the keyword mapping in iteration order: <<[k |-> name, v |-> value]>>
Pop(kwargs, name, default) ==
    IF \E j \in 1..Len(kwargs) : kwargs[j].k = name
    THEN kwargs[CHOOSE j \in 1..Len(kwargs) : kwargs[j].k = name].v
    ELSE default
Without(kwargs, name) == SelectSeq(kwargs, LAMBDA p : p.k # name)
Keys(kwargs) == [j \in 1..Len(kwargs) |-> PyStr(kwargs[j].k)]

\* the predicate fragments of the remaining keyword arguments, or the first
\* exception _make_list raises on the way
RECURSIVE predicates(_)
predicates(kwargs) ==
    IF Len(kwargs) = 0 THEN [tag |-> "ok", s |-> <<>>]
    ELSE LET p == kwargs[1]
             head == IF p.k # T_state /\ p.k # T_county
                     THEN query_predicate_string(p.k, p.v)
                     ELSE [tag |-> "ok", s |-> <<>>]
         IN  IF head.tag = "raise" THEN head
             ELSE LET rest == predicates(Tail(kwargs)) IN
                  IF rest.tag = "raise" THEN rest
                  ELSE [tag |-> "ok", s |-> head.s \o rest.s]

T_get == <<"?","g","e","t","=">>
T_key == <<"&","k","e","y","=">>

\* get up to the request (lines 153-171): the URL to request, or the exception
build_url(self, variables, kwargs) ==
    LET vl == _make_list(variables) IN
    IF vl.tag = "raise" THEN vl
    ELSE LET v1 == validate_vars(self.vars_df, vl.l) IN
    IF v1.tag = "raise" THEN v1
    ELSE LET var_string == Join(<<",">>, [j \in 1..Len(vl.l) |-> vl.l[j].s])
             query == T_get \o var_string \o T_key \o self.key
             state == Pop(kwargs, T_state, PyList(<<>>))
             county == Pop(kwargs, T_county, PyList(<<>>))
             rest == Without(Without(kwargs, T_state), T_county)
             v2 == validate_vars(self.vars_df, Keys(rest))
         IN
    IF v2.tag = "raise" THEN v2
    ELSE LET geo == _geography_query(state, county) IN
    IF geo.tag = "raise" THEN geo
    ELSE LET preds == predicates(rest) IN
    IF preds.tag = "raise" THEN preds
    ELSE [tag |-> "ok", s |-> self.url \o self.dataset \o query \o geo.s \o preds.s]

\* Series.astype on a column of JSON strings
CastCell(d, cell) == IF d = "int" THEN PyInt(ParseNat(cell.s)) ELSE PyFloat(ParseNat(cell.s))
astype(values, d) ==
    IF d \notin {"int", "float"} THEN Raise("TypeError")
    ELSE IF \E j \in 1..Len(values) : ~ IsNatText(values[j].s) THEN Raise("ValueError")
    ELSE [tag |-> "ok", values |-> [j \in 1..Len(values) |-> CastCell(d, values[j])]]

PredicateType(vars_df, name) ==
    vars_df.cols[CHOOSE k \in 1..Len(vars_df.cols) : vars_df.cols[k].name = name].predicateType

\* the declared type consulted first, state and county special only when
\* the table does not declare them
coerce_column_declared_first(vars_df, col) ==
    IF "predicateType" \in vars_df.rows /\ IsIn(col.name, vars_df)
    THEN LET dtype_str == PredicateType(vars_df, col.name) IN
         IF dtype_str = Dtype("string") THEN [tag |-> "ok", values |-> col.values]
         ELSE IF dtype_str = NaN THEN [tag |-> "ok", values |-> col.values]
         ELSE astype(col.values, dtype_str.d)
    ELSE IF col.name = T_state \/ col.name = T_county
    THEN astype(col.values, "int")
    ELSE Raise("KeyError")

\* the conversion of one column (lines 181-194)
coerce_column(vars_df, col) ==
    IF col.name = T_state \/ col.name = T_county
    THEN astype(col.values, "int")
    ELSE IF "predicateType" \notin vars_df.rows \/ ~ IsIn(col.name, vars_df)
    THEN Raise("KeyError")
    ELSE LET dtype_str == PredicateType(vars_df, col.name) IN
         IF dtype_str = Dtype("string") THEN [tag |-> "ok", values |-> col.values]
         ELSE IF dtype_str = NaN THEN [tag |-> "ok", values |-> col.values]
         ELSE astype(col.values, dtype_str.d)

\* the loop over df.columns: the table, or the first exception
RECURSIVE coerce(_, _)
coerce(vars_df, cols) ==
    IF Len(cols) = 0 THEN [tag |-> "ok", table |-> <<>>]
    ELSE LET c == coerce_column(vars_df, cols[1]) IN
         IF c.tag = "raise" THEN c
         ELSE LET rest == coerce(vars_df, Tail(cols)) IN
              IF rest.tag = "raise" THEN rest
              ELSE [tag |-> "ok",
                    table |-> <<[name |-> cols[1].name, values |-> c.values]>> \o rest.table]

\* pd.DataFrame(js[1:], columns=js[0])
frame(js) == [j \in 1..Len(js.header) |->
                 [name |-> js.header[j],
                  values |-> [i \in 1..Len(js.rows) |-> js.rows[i][j]]]]

Answered(status, content) == [net |-> "up", status |-> status, content |-> content]
Json(header, rows) == [kind |-> "json", header |-> header, rows |-> rows]

\* a status of 4xx or 5xx only
failed_status_errors_only(resp) == resp.status >= 400

\* r.status_code != 200
failed_status(resp) == resp.status # 200

\* get: the outcome and the number of requests issued
get(self, variables, start_time, end_time, kwargs, resp) ==
    LET target == build_url(self, variables, kwargs) IN
    IF target.tag = "raise" THEN [result |-> target, nreq |-> 0, requested |-> <<>>]
    ELSE IF resp = ConnectionFailed
    THEN [result |-> Raise("ConnectionError"), nreq |-> 1, requested |-> target.s]
    ELSE IF failed_status(resp)
    THEN [result |-> [tag |-> "raise", exc |-> "QueryError", response |-> resp,
                      msg |-> [text |-> "Query failed with status code",
                               status_code |-> resp.status, content |-> resp.content]],
          nreq |-> 1, requested |-> target.s]
    ELSE IF resp.content.kind # "json"
    THEN [result |-> Raise("JSONDecodeError"), nreq |-> 1, requested |-> target.s]
    ELSE [result |-> coerce(self.vars_df, frame(resp.content)),
          nreq |-> 1, requested |-> target.s]

---------------------------------------------------------------------------
(* State *)

OtherUrl == <<"h","/">>

\* the constructor calls tried: every key source with one year, every year
\* with one key, a second url and a second key
ConstructorCalls ==
    {[year |-> 2010, url |-> DEFAULT_API_URL, keys |-> ks] : ks \in KeySources}
    \cup {[year |-> y, url |-> DEFAULT_API_URL,
           keys |-> <<PyStr(KeyBody(API_KEY_LENGTH)), PyNone, PyNone>>] : y \in Years}
    \cup {[year |-> y, url |-> OtherUrl,
           keys |-> <<PyNone, PyNone, PyStr(OtherKey \o <<"\n">>)>>] : y \in {2010, 2012}}

NetOf(fn) == IF fn \in DOMAIN net THEN net[fn]
             ELSE [n |-> 0, w |-> 0, tables |-> {}]

\* the requests, cache writes and tables returned, per cache file
Account(fn, got) ==
    (fn :> [n |-> NetOf(fn).n + got.nreq,
            w |-> NetOf(fn).w + got.nwrite,
            tables |-> NetOf(fn).tables \cup
                       (IF got.result.tag = "ok" THEN {got.result.df} ELSE {})]) @@ net

\* a response exists only for a request that is issued
ResponsesTo(issued, choices) == IF issued THEN choices ELSE {NoResponse}

Init ==
    /\ catalog \in {_load_metadata(raw) : raw \in RawCatalogs}
    /\ files = <<>>
    /\ client = NoClient
    /\ net = <<>>
    /\ last = [op |-> "none"]

Construct ==
    \E call \in ConstructorCalls :
        LET fn == _variables_file_name(NatStr(call.year) \o <<"/">> \o S_cbp)
            issued == /\ CensusData_init(call.url, call.keys[1], call.keys[2],
                                         call.keys[3]).tag = "ok"
                      /\ Len(cbp_meta(catalog, call.year)) > 0
                      /\ fn \notin DOMAIN files
        IN
        \E resp \in ResponsesTo(issued, VariableResponses) :
        \E r \in {CountyBusinessPatterns_init(catalog, files, call.year, call.url,
                      call.keys[1], call.keys[2], call.keys[3], resp)} :
            /\ issued => NetOf(fn).n < MaxRequests
            /\ files' = r.fs
            /\ client' = IF r.result.tag = "ok" THEN r.obj ELSE client
            /\ net' = IF r.fetched
                      THEN Account(fn, [nreq |-> r.nreq, nwrite |-> r.nwrite,
                                        result |-> IF r.result.tag = "ok"
                                                   THEN [tag |-> "ok", df |-> r.obj.vars_df]
                                                   ELSE r.result])
                      ELSE net
            /\ last' = [op |-> "construct", call |-> call,
                        resp |-> resp, present |-> fn \in DOMAIN files,
                        result |-> r.result, nreq |-> r.nreq, fetched |-> r.fetched,
                        warned |-> r.warned, built |-> r.obj # NoClient]
            /\ UNCHANGED catalog

GetVariablesFile ==
    /\ client # NoClient
    /\ LET fn == _variables_file_name(client.dataset) IN
       \E resp \in ResponsesTo(fn \notin DOMAIN files, VariableResponses) :
       \E got \in {_get_variables_file(client.dataset, files, resp)} :
            /\ fn \notin DOMAIN files => NetOf(fn).n < MaxRequests
            /\ files' = got.fs
            /\ net' = Account(fn, got)
            /\ last' = [op |-> "vars", dataset |-> client.dataset, resp |-> resp,
                        present |-> fn \in DOMAIN files,
                        result |-> got.result, nreq |-> got.nreq]
            /\ UNCHANGED <<catalog, client>>

---------------------------------------------------------------------------
(* Inputs tried *)

N_emp == <<"e","m","p">>
N_Name == <<"N","a","m","e">>
V_06 == PyStr(<<"0","6">>)
V_001 == PyStr(<<"0","0","1">>)
V_72 == PyStr(<<"7","2">>)
V_date == PyStr(<<"2","0","1","0","-","0","1","-","0","1">>)
V_float == PyFloat(1)
Names(l) == PyList([j \in 1..Len(l) |-> PyStr(l[j])])
KW(k, v) == [k |-> k, v |-> v]

\* state and county arguments: scalars, lists (empty, mixed, repeated), a float
GeoValues == { PyList(<<>>), V_06, PyInt(6), PyStr(<<>>),
               PyList(<<PyInt(1), V_001, PyInt(1)>>), PyList(<<V_72>>), V_float }

VariableInputs ==
    { Names(<<N_NAME, N_EMP>>), PyStr(N_emp), Names(<<N_EMP, N_bogus, N_for>>),
      Names(<<N_for>>), Names(<<N_Tot, N_EMP>>), PyInt(3), V_float, PyList(<<>>),
      Names(<<N_GEO, N_EMP, N_EMP>>) }

KeywordInputs ==
    { <<KW(T_state, V_06)>>,
      <<KW(T_county, PyList(<<PyInt(1), PyInt(3)>>)), KW(T_state, PyInt(6))>>,
      <<>>,
      <<KW(T_state, PyList(<<>>)), KW(N_EMP, PyInt(5)), KW(T_county, PyList(<<>>))>>,
      <<KW(N_EMP, PyList(<<PyInt(5), PyInt(5), V_72>>)), KW(T_state, V_06),
        KW(N_Name, V_72)>>,
      <<KW(N_Name, V_72), KW(T_state, V_06), KW(N_EMP, PyInt(5))>>,
      <<KW(N_bogus, PyInt(1)), KW(T_state, V_06)>>,
      <<KW(N_EMP, V_float), KW(T_state, V_06)>>,
      <<KW(T_county, V_001), KW(N_emp, PyList(<<>>))>>,
      <<KW(T_state, V_float)>>,
      <<KW(N_EMP, PyInt(5))>> }

\* the get calls tried: one variable list with every keyword mapping, one
\* mapping with every variable input, and the time arguments varied
GetCalls ==
    {[variables |-> Names(<<N_NAME, N_EMP>>), start_time |-> PyNone,
      end_time |-> PyNone, kwargs |-> kw] : kw \in KeywordInputs}
    \cup {[variables |-> v, start_time |-> PyNone, end_time |-> PyNone,
           kwargs |-> <<KW(T_state, V_06)>>] : v \in VariableInputs}
    \cup {[variables |-> Names(<<N_NAME, N_EMP>>), start_time |-> t[1],
           end_time |-> t[2], kwargs |-> <<KW(T_state, V_06)>>] :
             t \in {<<V_date, PyNone>>, <<PyNone, V_date>>, <<V_date, V_date>>}}

Row(l) == [j \in 1..Len(l) |-> PyStr(l[j])]

QueryResponses ==
    { ConnectionFailed,
      Answered(200, Json(<<N_NAME, N_EMP, T_state, T_county>>,
                         << Row(<<N_Name, <<"1","2">>, <<"0","6">>, <<"0","0","1">> >>),
                            Row(<<N_bogus, <<"7">>, <<"0","6">>, <<"0","7","5">> >>) >>)),
      Answered(200, Json(<<N_GEO, N_Tot, N_EMP>>,
                         << Row(<<N_Name, <<"7">>, <<"1","2">> >>) >>)),
      Answered(200, Json(<<T_state, N_for>>, << Row(<< <<"0","6">>, <<"1">> >>) >>)),
      Answered(200, Json(<<N_EMP, T_county>>, << Row(<< <<"1","2">>, N_Name >>) >>)),
      Answered(200, [kind |-> "html"]),
      Answered(404, [kind |-> "html"]),
      Answered(204, Json(<<N_EMP>>, << Row(<< <<"1","2">> >>) >>)) }

NameInputs == { PyStr(N_EMP), PyStr(N_emp), PyStr(<<"E","m","P">>),
                PyStr(N_for), PyStr(N_Tot), PyStr(<<"T","O","T">>), PyStr(N_bogus),
                PyInt(3) }

\* name lists of at most two names
NameLists == {<<>>} \cup {<<a>> : a \in NameInputs}
             \cup {<<a, b>> : a \in NameInputs, b \in NameInputs}

---------------------------------------------------------------------------
(* Calls on the client *)

Get ==
    /\ client # NoClient
    /\ \E call \in GetCalls :
       \E resp \in ResponsesTo(build_url(client, call.variables, call.kwargs).tag = "ok",
                               QueryResponses) :
       \E r \in {get(client, call.variables, call.start_time, call.end_time,
                     call.kwargs, resp)} :
            /\ last' = [op |-> "get", call |-> call, resp |-> resp,
                        result |-> r.result, nreq |-> r.nreq, requested |-> r.requested]
            /\ UNCHANGED <<catalog, files, client, net>>

ValidateVars ==
    /\ client # NoClient
    /\ \E names \in NameLists :
            /\ last' = [op |-> "validate", names |-> names,
                        result |-> validate_vars(client.vars_df, names)]
            /\ UNCHANGED <<catalog, files, client, net>>

GeographyQuery ==
    /\ client # NoClient
    /\ \E state \in GeoValues, county \in GeoValues :
            /\ last' = [op |-> "geography", state |-> state, county |-> county,
                        result |-> _geography_query(state, county)]
            /\ UNCHANGED <<catalog, files, client, net>>

---------------------------------------------------------------------------
(* Vocabulary of the properties *)

\* the values an argument stands for: a scalar is one value, a list its elements
ValuesOf(v) == IF v.t = "list" THEN v.l ELSE <<v>>
WellFormed(v) == v.t \in {"int", "str", "list"}

\* name is spelled like a column of the table, letter case aside
DeclaredIgnoringCase(df, name) ==
    \E k \in 1..Len(df.cols) : Upper(df.cols[k].name) = Upper(name)

Given(call, name) == \E j \in 1..Len(call.kwargs) : call.kwargs[j].k = name
ArgOf(call, name) == call.kwargs[CHOOSE j \in 1..Len(call.kwargs) : call.kwargs[j].k = name].v
NoGeography(call, name) == ~ Given(call, name) \/ ArgOf(call, name) = PyList(<<>>)
OtherKeywords(call) == SelectSeq(call.kwargs, LAMBDA p : p.k \notin {T_state, T_county})

UnknownVariable(call) ==
    /\ WellFormed(call.variables)
    /\ \E j \in 1..Len(ValuesOf(call.variables)) :
          LET v == ValuesOf(call.variables)[j] IN
          v.t # "str" \/ ~ DeclaredIgnoringCase(client.vars_df, v.s)
UnknownKeyword(call) ==
    \E j \in 1..Len(OtherKeywords(call)) :
        ~ DeclaredIgnoringCase(client.vars_df, OtherKeywords(call)[j].k)

\* C1: a get call naming an unknown variable or an unknown predicate key, or
\* giving neither state nor county, fails and issues no HTTP request
C1_ValidationPrecedesNetwork ==
    (/\ last.op = "get"
     /\ \/ UnknownVariable(last.call)
        \/ UnknownKeyword(last.call)
        \/ NoGeography(last.call, T_state) /\ NoGeography(last.call, T_county))
    => /\ last.result.tag = "raise"
       /\ last.nreq = 0
       /\ last.resp = NoResponse

C1_Witness ==
    /\ last.op = "get"
    /\ ~ UnknownVariable(last.call)
    /\ ~ UnknownKeyword(last.call)
    /\ Given(last.call, T_state) /\ Given(last.call, T_county)
    /\ NoGeography(last.call, T_state) /\ NoGeography(last.call, T_county)
    /\ last.result = Raise("ValueError")
    /\ last.nreq = 0

\* the fragment for the geography arguments of a call
GeoText(v) == Join(<<",">>, [j \in 1..Len(ValuesOf(v)) |-> Str(ValuesOf(v)[j])])
GeographyFragment(state, county) ==
    IF Len(ValuesOf(county)) > 0
    THEN <<"&","f","o","r","=","c","o","u","n","t","y",":">> \o GeoText(county)
         \o (IF Len(ValuesOf(state)) > 0
             THEN <<"&","i","n","=","s","t","a","t","e",":">> \o GeoText(state)
             ELSE <<>>)
    ELSE <<"&","f","o","r","=","s","t","a","t","e",":">> \o GeoText(state)

\* one "&name=value" segment per value of one predicate
Segments(p) == Concat([j \in 1..Len(ValuesOf(p.v)) |->
                          <<"&">> \o p.k \o <<"=">> \o Str(ValuesOf(p.v)[j])])

ExpectedUrl(self, call) ==
    self.url \o self.dataset
    \o <<"?","g","e","t","=">>
    \o Join(<<",">>, [j \in 1..Len(ValuesOf(call.variables)) |-> ValuesOf(call.variables)[j].s])
    \o <<"&","k","e","y","=">> \o self.key
    \o GeographyFragment(IF Given(call, T_state) THEN ArgOf(call, T_state) ELSE PyList(<<>>),
                         IF Given(call, T_county) THEN ArgOf(call, T_county) ELSE PyList(<<>>))
    \o Concat([j \in 1..Len(OtherKeywords(call)) |-> Segments(OtherKeywords(call)[j])])

\* C2: the URL a get call requests is url + dataset + ?get=<variables> +
\* &key=<key> + the geography fragment + one &name=value per predicate value,
\* whatever start_time and end_time are; [NAME, EMP] with state "06" requests
\* ...?get=NAME,EMP&key=<key>&for=state:06
C2_RequestedUrl ==
    (last.op = "get" /\ last.nreq > 0)
    => /\ last.requested = ExpectedUrl(client, last.call)
       /\ (/\ last.call.variables = Names(<<N_NAME, N_EMP>>)
           /\ last.call.kwargs = <<KW(T_state, V_06)>>)
          => last.requested =
                client.url \o client.dataset
                \o <<"?","g","e","t","=","N","A","M","E",",","E","M","P","&","k","e","y","=">>
                \o client.key \o <<"&","f","o","r","=","s","t","a","t","e",":","0","6">>

C2_Witness ==
    /\ last.op = "get"
    /\ last.nreq = 1
    /\ last.call.start_time # PyNone
    /\ last.call.end_time # PyNone
    /\ last.requested = ExpectedUrl(client, last.call)

C2_WitnessPredicates ==
    /\ last.op = "get"
    /\ last.nreq = 1
    /\ Len(OtherKeywords(last.call)) = 2
    /\ \E j \in 1..2 : Len(ValuesOf(OtherKeywords(last.call)[j].v)) = 3

\* C3: _geography_query gives &for=county:<counties> for counties alone,
\* &for=county:<counties>&in=state:<states> for both, &for=state:<states> for
\* states alone, and fails with no fragment when both are empty
C3_GeographyComposition ==
    (last.op = "geography" /\ WellFormed(last.state) /\ WellFormed(last.county))
    => LET states == GeoText(last.state)
           counties == GeoText(last.county)
           noState == Len(ValuesOf(last.state)) = 0
           noCounty == Len(ValuesOf(last.county)) = 0
       IN  /\ (~ noCounty /\ noState) =>
                 last.result = [tag |-> "ok",
                                s |-> <<"&","f","o","r","=","c","o","u","n","t","y",":">>
                                      \o counties]
           /\ (~ noCounty /\ ~ noState) =>
                 last.result = [tag |-> "ok",
                                s |-> <<"&","f","o","r","=","c","o","u","n","t","y",":">>
                                      \o counties
                                      \o <<"&","i","n","=","s","t","a","t","e",":">>
                                      \o states]
           /\ (noCounty /\ ~ noState) =>
                 last.result = [tag |-> "ok",
                                s |-> <<"&","f","o","r","=","s","t","a","t","e",":">>
                                      \o states]
           /\ (noCounty /\ noState) => last.result = Raise("ValueError")

C3_Witness ==
    /\ last.op = "geography"
    /\ last.county = PyList(<<PyInt(1), V_001, PyInt(1)>>)
    /\ last.state = V_06
    /\ last.result.tag = "ok"
    /\ last.result.s = <<"&","f","o","r","=","c","o","u","n","t","y",":","1",",","0","0","1",",","1",
                         "&","i","n","=","s","t","a","t","e",":","0","6">>

\* the key a constructor call is made with: the argument, else the
\* environment variable, else the key file
GivenKey(call) == IF call.keys[1] # PyNone THEN call.keys[1]
                  ELSE IF call.keys[2] # PyNone THEN call.keys[2]
                  ELSE call.keys[3]
IsHex(c) == c \in {"0","1","2","3","4","5","6","7","8","9",
                   "a","b","c","d","e","f","A","B","C","D","E","F"}
NonHexAt(key) == {p \in 1..Len(key) : ~ IsHex(key[p])}

\* C4 as stated: a key holding a non-hexadecimal character anywhere makes the
\* construction fail, whatever the key's length
C4_NonHexAnywhereFails ==
    (/\ last.op = "construct"
     /\ GivenKey(last.call) # PyNone
     /\ NonHexAt(GivenKey(last.call).s) # {})
    => last.result.tag = "raise" /\ ~ last.built

\* C4 amended: a key holding a non-hexadecimal character among its first 40
\* characters makes the construction fail with a ValueError, whatever the
\* key's length
C4_NonHexInFirst40Fails ==
    (/\ last.op = "construct"
     /\ GivenKey(last.call) # PyNone
     /\ \E p \in NonHexAt(GivenKey(last.call).s) : p <= 40)
    => /\ last.result.tag = "raise"
       /\ last.result.exc = "ValueError"
       /\ ~ last.built
       /\ last.nreq = 0

C4_Witness ==
    /\ last.op = "construct"
    /\ GivenKey(last.call) # PyNone
    /\ Len(GivenKey(last.call).s) > 40
    /\ NonHexAt(GivenKey(last.call).s) = {40}
    /\ last.result.tag = "raise"
    /\ last.warned

StoredKeyOk(key) == Len(key) = 40 /\ \A p \in 1..Len(key) : IsHex(key[p])

C5_KeyInvariant ==
    /\ client # NoClient => StoredKeyOk(client.key)
    /\ (last.op = "construct" /\ GivenKey(last.call) # PyNone) =>
          LET k == GivenKey(last.call).s IN
          /\ Len(k) < 40 => (last.result.tag = "raise" /\ ~ last.built)
          /\ last.warned <=> Len(k) > 40
          /\ last.built => client.key = [p \in 1..40 |-> k[p]]

\* C5: a constructed client stores exactly 40 hexadecimal characters, the
\* first 40 of the key given; a shorter key is rejected, a longer one is
\* truncated with a warning; get and _get_variables_file leave the key alone
C5_StoredKey ==
    /\ [] C5_KeyInvariant
    /\ [][(client # NoClient /\ last'.op \in {"get", "vars", "validate", "geography"})
            => (client' # NoClient /\ client'.key = client.key)]_vars

C5_Witness ==
    /\ last.op = "construct"
    /\ last.built
    /\ GivenKey(last.call) # PyNone
    /\ last.warned
    /\ Len(GivenKey(last.call).s) = 41
    /\ client.key = SubSeq(GivenKey(last.call).s, 1, 40)

HasLower(name) == Upper(name) # name

\* C6 as stated: a name that matches a declared column, letter case aside, is
\* accepted
C6_AnyCaseOfAnyColumnAccepted ==
    (/\ last.op = "validate"
     /\ Len(last.names) = 1
     /\ last.names[1].t = "str"
     /\ DeclaredIgnoringCase(client.vars_df, last.names[1].s))
    => last.result.tag = "ok"

\* the first name of the list that is not, upper-cased, a column of the table
Rejected(df, names) == {j \in 1..Len(names) : Upper(names[j].s) \notin Columns(df)}
FirstOf(S) == CHOOSE j \in S : \A i \in S : j <= i

\* C6 amended: validate_vars upper-cases each name and looks it up among the
\* columns: every spelling of a column declared in upper case is accepted
\* alike, a name whose upper-cased form is no column fails (a column declared
\* with lower-case letters is therefore never accepted), and the error names
\* the first failing name
C6_UpperCasedLookup ==
    (last.op = "validate" /\ \A j \in 1..Len(last.names) : last.names[j].t = "str")
    => LET df == client.vars_df
           bad == Rejected(df, last.names)
       IN  /\ (\A j \in 1..Len(last.names) :
                  \E k \in 1..Len(df.cols) :
                      /\ ~ HasLower(df.cols[k].name)
                      /\ Upper(last.names[j].s) = df.cols[k].name)
              => last.result.tag = "ok"
           /\ bad = {} <=> last.result.tag = "ok"
           /\ bad # {} => last.result = [tag |-> "raise", exc |-> "ValueError",
                                         var |-> last.names[FirstOf(bad)]]
           /\ \A j \in 1..Len(last.names) :
                 (\E k \in 1..Len(df.cols) :
                     /\ HasLower(df.cols[k].name)
                     /\ df.cols[k].name = last.names[j].s
                     /\ Upper(last.names[j].s) \notin Columns(df))
                 => last.result.tag = "raise"

C6_Witness ==
    /\ last.op = "validate"
    /\ last.names = <<PyStr(<<"E","m","P">>), PyStr(N_bogus)>>
    /\ last.result = [tag |-> "raise", exc |-> "ValueError", var |-> PyStr(N_bogus)]

C6_WitnessTwoBad ==
    /\ last.op = "validate"
    /\ last.names = <<PyStr(N_for), PyStr(N_bogus)>>
    /\ IsIn(N_for, client.vars_df)
    /\ last.result = [tag |-> "raise", exc |-> "ValueError", var |-> PyStr(N_for)]

CbpDataset(year) == NatStr(year) \o <<"/","c","b","p">>
CacheFile(year) == NatStr(year) \o <<"_","c","b","p",".","j","s","o","n">>

\* the last call ran _get_variables_file, for the cache file named
FetchCall == last.op = "vars" \/ (last.op = "construct" /\ last.fetched)
FetchFile == IF last.op = "vars" THEN _variables_file_name(last.dataset)
             ELSE CacheFile(last.call.year)
AnsweredJson(resp) == resp # NoResponse /\ resp # ConnectionFailed /\ resp.text.kind = "json"

\* C7 as stated: a call that finds the cache file absent leaves it present,
\* and at most one request is ever made for a dataset
C7_AtMostOneRequest ==
    /\ \A fn \in DOMAIN net : net[fn].n <= 1
    /\ (FetchCall /\ ~ last.present) => FetchFile \in DOMAIN files

\* C7 amended: a request is made only by a call that finds the cache file
\* absent; a request answered with JSON leaves the file present (a failed one
\* leaves it absent, and the next call requests again), so at most one answer
\* is ever cached; a call that finds the file present makes no request, and
\* all the calls that return a table return the same table
C7_CacheIdempotence ==
    /\ \A fn \in DOMAIN net :
          /\ net[fn].w <= 1
          /\ net[fn].w = 1 <=> fn \in DOMAIN files
          /\ Cardinality(net[fn].tables) <= 1
    /\ \A fn \in DOMAIN files : fn \in DOMAIN net
    /\ FetchCall =>
          /\ last.present => (last.nreq = 0 /\ last.resp = NoResponse
                              /\ FetchFile \in DOMAIN files)
          /\ ~ last.present => (/\ last.nreq = 1
                                /\ AnsweredJson(last.resp) <=> FetchFile \in DOMAIN files)
          /\ last.result.tag = "ok" =>
                net[FetchFile].tables =
                    {IF last.op = "vars" THEN last.result.df ELSE client.vars_df}

C7_Witness ==
    /\ last.op = "vars"
    /\ last.present
    /\ last.nreq = 0
    /\ last.result.tag = "ok"
    /\ net[FetchFile].n = 2
    /\ net[FetchFile].w = 1

\* the column of the response a column of the result comes from
Sent(j) == [i \in 1..Len(last.resp.content.rows) |-> last.resp.content.rows[i][j]]
Declared(name) ==
    {client.vars_df.cols[k].predicateType :
        k \in {i \in 1..Len(client.vars_df.cols) : client.vars_df.cols[i].name = name}}

\* C8: in the table get returns, a column named state or county holds
\* integers whatever the table of variables says; another column declared
\* "string" or with no declared type holds the strings sent; any other column
\* holds the values cast to its declared type
C8_ColumnCoercion ==
    (last.op = "get" /\ last.result.tag = "ok")
    => LET header == last.resp.content.header
           table == last.result.table
       IN  /\ Len(table) = Len(header)
           /\ \A j \in 1..Len(header) :
                 /\ table[j].name = header[j]
                 /\ Len(table[j].values) = Len(Sent(j))
                 /\ IF header[j] \in {T_state, T_county}
                    THEN \A i \in 1..Len(Sent(j)) :
                            /\ IsNatText(Sent(j)[i].s)
                            /\ table[j].values[i] = PyInt(ParseNat(Sent(j)[i].s))
                    ELSE IF Declared(header[j]) \subseteq {Dtype("string"), NaN}
                    THEN Declared(header[j]) # {} /\ table[j].values = Sent(j)
                    ELSE \A i \in 1..Len(Sent(j)) :
                            /\ IsNatText(Sent(j)[i].s)
                            /\ Declared(header[j]) = {Dtype(table[j].values[i].t)}
                            /\ table[j].values[i] \in {PyInt(ParseNat(Sent(j)[i].s)),
                                                       PyFloat(ParseNat(Sent(j)[i].s))}

C8_Witness ==
    /\ last.op = "get"
    /\ last.result.tag = "ok"
    /\ last.resp.content.header = <<N_NAME, N_EMP, T_state, T_county>>
    /\ Declared(T_county) = {Dtype("string")}
    /\ last.result.table[4].values = <<PyInt(1), PyInt(75)>>
    /\ last.result.table[2].values = <<PyInt(12), PyInt(7)>>
    /\ last.result.table[1].values = <<PyStr(N_Name), PyStr(N_bogus)>>

C8_WitnessUntyped ==
    /\ last.op = "get"
    /\ last.result.tag = "ok"
    /\ last.resp.content.header = <<N_GEO, N_Tot, N_EMP>>
    /\ Declared(N_GEO) = {NaN}
    /\ last.result.table[1].values = <<PyStr(N_Name)>>
    /\ last.result.table[2].values = <<PyFloat(7)>>

\* a get call that every check before the request accepts
ValidCall(call) ==
    /\ WellFormed(call.variables)
    /\ \A j \in 1..Len(ValuesOf(call.variables)) :
          LET v == ValuesOf(call.variables)[j] IN
          v.t = "str" /\ Upper(v.s) \in Columns(client.vars_df)
    /\ \A j \in 1..Len(OtherKeywords(call)) :
          /\ Upper(OtherKeywords(call)[j].k) \in Columns(client.vars_df)
          /\ WellFormed(OtherKeywords(call)[j].v)
    /\ \A g \in {T_state, T_county} : Given(call, g) => WellFormed(ArgOf(call, g))
    /\ ~ (NoGeography(call, T_state) /\ NoGeography(call, T_county))

\* C9: a get call that passes validation issues exactly one HTTP GET (no call
\* issues more); a status other than 200 makes get raise a QueryError holding
\* the response and a message with the status code and the body, and no table
C9_OneRequestQueryError ==
    last.op = "get"
    => /\ last.nreq <= 1
       /\ ValidCall(last.call) <=> last.nreq = 1
       /\ last.nreq = 1 <=> last.resp # NoResponse
       /\ (last.resp # NoResponse /\ last.resp # ConnectionFailed /\ last.resp.status # 200)
          => /\ last.result.tag = "raise"
             /\ last.result.exc = "QueryError"
             /\ last.result.response = last.resp
             /\ last.result.msg.status_code = last.resp.status
             /\ last.result.msg.content = last.resp.content

C9_Witness ==
    /\ last.op = "get"
    /\ ValidCall(last.call)
    /\ last.nreq = 1
    /\ last.resp.net = "up"
    /\ last.resp.status = 204
    /\ last.result.tag = "raise"
    /\ last.result.exc = "QueryError"
    /\ last.result.response.status = 204

ValidKey(call) ==
    /\ GivenKey(call) # PyNone
    /\ Len(GivenKey(call).s) >= 40
    /\ \A p \in 1..40 : IsHex(GivenKey(call).s[p])
IsCbp(e) == e.c_dataset = <<"c","b","p">>
Matching(year) == SelectSeq(catalog, LAMBDA e : IsCbp(e) /\ e.temporal = Temporal(year, year))
Editions == {ParseNat(SplitFirst(catalog[k].temporal)) :
                k \in {i \in 1..Len(catalog) : IsCbp(catalog[i])}}

\* C10 as stated: with a valid key the construction succeeds exactly when the
\* catalog holds a cbp entry whose temporal is <year>/<year>
C10_SucceedsIffEditionListed ==
    (last.op = "construct" /\ ValidKey(last.call))
    => (last.built <=> Len(Matching(last.call.year)) > 0)

\* C10 amended: with a valid key the construction succeeds exactly when the
\* catalog holds a cbp entry whose temporal is <year>/<year> and the fetch of
\* the variable definitions returns a table (with such an entry the
\* construction fails only on that fetch); it then leaves dataset = <year>/cbp,
\* meta = the matching entries and vars_df = the table; with no such entry it
\* fails with an error whose message names the least and the greatest edition
\* of the cbp entries, and neither request nor cache read is made
C10_EditionResolution ==
    (last.op = "construct" /\ ValidKey(last.call))
    => LET year == last.call.year
           listed == Len(Matching(year)) > 0
       IN  /\ last.built <=> (listed /\ last.result.tag = "ok")
           /\ last.built =>
                 /\ client.dataset = CbpDataset(year)
                 /\ client.meta = Matching(year)
                 /\ net[CacheFile(year)].tables = {client.vars_df}
           /\ (listed /\ ~ last.built) =>
                 /\ last.fetched
                 /\ last.result.exc \in {"ConnectionError", "JSONDecodeError", "KeyError"}
           /\ ~ listed =>
                 /\ last.result.tag = "raise"
                 /\ last.result.exc = "ValueError"
                 /\ last.result.msg.year = year
                 /\ last.result.msg.min_year =
                       (IF Editions = {} THEN NaN
                        ELSE PyInt(CHOOSE x \in Editions : \A y \in Editions : x <= y))
                 /\ last.result.msg.max_year =
                       (IF Editions = {} THEN NaN
                        ELSE PyInt(CHOOSE x \in Editions : \A y \in Editions : x >= y))
                 /\ ~ last.fetched
                 /\ last.nreq = 0
                 /\ last.resp = NoResponse

C10_Witness ==
    /\ last.op = "construct"
    /\ ValidKey(last.call)
    /\ last.call.year = 2012
    /\ Len(Matching(2012)) = 0
    /\ last.result.tag = "raise"
    /\ last.result.msg.min_year = PyInt(2009)
    /\ last.result.msg.max_year = PyInt(2012)

C10_WitnessBuilt ==
    /\ last.op = "construct"
    /\ last.built
    /\ Len(Matching(last.call.year)) = 2
    /\ Len(client.meta) = 2

Next == Construct \/ GetVariablesFile \/ Get \/ ValidateVars \/ GeographyQuery

Spec == Init /\ [][Next]_vars

====
